---- MODULE Spec2Model ----
(***************************************************************************)
(* Label matcher Lambda (lambda_function.py): one SQS batch of S3          *)
(* notifications is decoded, the WMS is authenticated against once, the    *)
(* open-orders report is pulled once (submit, poll, fetch), and every      *)
(* label file is moved to processed/ or errors/ by copy + delete.          *)
(*                                                                         *)
(* Text is modelled as a sequence of tokens: a token is one character      *)
(* ("/", ".", " ", "A", "a", "0") or a run of characters that holds no     *)
(* separator, dot or blank ("incoming", "pdf").  An S3 key, a filename     *)
(* and an order reference are such sequences.                              *)
(***************************************************************************)
EXTENDS Integers, Sequences, FiniteSets, TLC

\* ---------------------------------------------------------------------
\* Bounds of the explored inputs
\* ---------------------------------------------------------------------
MaxEnvelopes == 2
MaxNotifs == 2
MaxRows == 1

\* ---------------------------------------------------------------------
\* Program constants
\* ---------------------------------------------------------------------
BUCKET_NAME == "vwslabels"
INCOMING_PREFIX == <<"incoming", "/">>
PROCESSED_PREFIX == <<"processed", "/">>
ERRORS_PREFIX == <<"errors", "/">>
PollAttempts == 30

Procs == {"p1", "p2"}
SeqProcs == {"p1"}

\* ---------------------------------------------------------------------
\* String helpers (os.path.basename, os.path.splitext, str.strip)
\* ---------------------------------------------------------------------
\* str.rfind, 1-based; 0 when the token does not occur
RFind(s, c) ==
    IF \E j \in 1..Len(s) : s[j] = c
    THEN CHOOSE j \in 1..Len(s) : s[j] = c /\ \A m \in (j+1)..Len(s) : s[m] # c
    ELSE 0

Basename(key) == SubSeq(key, RFind(key, "/") + 1, Len(key))

StartsWith(s, pre) == Len(s) >= Len(pre) /\ SubSeq(s, 1, Len(pre)) = pre

\* genericpath._splitext on a name without separators: the extension starts
\* at the last dot unless only dots precede it
SplitextRoot(p) ==
    LET dotIndex == RFind(p, ".")
    IN IF dotIndex > 0 /\ \E j \in 1..(dotIndex - 1) : p[j] # "."
       THEN SubSeq(p, 1, dotIndex - 1)
       ELSE p

IsSpace(c) == c = " "

Strip(s) ==
    LET keep == {j \in 1..Len(s) : ~IsSpace(s[j])}
    IN IF keep = {} THEN <<>>
       ELSE LET lo == CHOOSE j \in keep : \A m \in keep : j <= m
                hi == CHOOSE j \in keep : \A m \in keep : j >= m
            IN SubSeq(s, lo, hi)

\* f"{dest_prefix}{filename}"
DestKey(dest_prefix, filename) == dest_prefix \o filename

\* ---------------------------------------------------------------------
\* The keys that notifications name
\* ---------------------------------------------------------------------
kA == INCOMING_PREFIX \o <<"A", ".", "pdf">>
kSp == INCOMING_PREFIX \o <<" ", "0", ".", "pdf">>
kSub == INCOMING_PREFIX \o <<"sub", "/", "A", ".", "pdf">>
kHid == INCOMING_PREFIX \o <<".", "A", ".", "pdf">>
kDir == INCOMING_PREFIX
kWs == INCOMING_PREFIX \o <<" ", ".", "pdf">>
kProc == PROCESSED_PREFIX \o <<"A", ".", "pdf">>

UploadKeys == {kA, kSp, kSub}
InertKeys == {kHid, kDir, kWs}
NotifKeys == UploadKeys \cup InertKeys \cup {kProc}

\* ---------------------------------------------------------------------
\* Batch decoding (parse_sqs_records)
\* ---------------------------------------------------------------------
\* one S3 notification: its bucket/key fields are there ("ok") or one of
\* them is missing ("nokey")
Notifs == {[kind |-> "ok", key |-> k] : k \in NotifKeys}
          \cup {[kind |-> "nokey", key |-> <<>>]}

SeqsUpTo(S, n) == UNION {[1..m -> S] : m \in 0..n}

\* one SQS record: no "body" field, a body that is not JSON, a body that is
\* JSON but not an object, or an object with its Records list
Envelopes ==
    {[kind |-> k, recs |-> <<>>] : k \in {"nobody", "badjson", "nonobject"}}
    \cup {[kind |-> "object", recs |-> r] : r \in SeqsUpTo(Notifs, MaxNotifs)}

\* the events of at most e SQS records that hold at most n notifications
RECURSIVE EventsUpTo(_, _)
EventsUpTo(e, n) ==
    IF e = 0 THEN {<<>>}
    ELSE {<<>>} \cup
         UNION {{<<rec>> \o rest :
                   rec \in {r \in Envelopes : Len(r.recs) = k},
                   rest \in EventsUpTo(e - 1, n - k)} : k \in 0..n}

Events == EventsUpTo(MaxEnvelopes, MaxNotifs)

Descriptor(key) ==
    [bucket |-> BUCKET_NAME,
     key |-> key,
     filename |-> Basename(key),
     order_ref |-> Strip(SplitextRoot(Basename(key)))]

\* what a piece of the decoding yields: the descriptors appended, the
\* exception raised, and whether a notification was passed over by `continue`
Parsed(files, exc, skipped) == [files |-> files, exc |-> exc, skipped |-> skipped]

\* inner loop body that appends a descriptor for every notification
ParseNotificationNoFilter(n) ==
    IF n.kind = "nokey" THEN Parsed(<<>>, "KeyError", FALSE)
    ELSE Parsed(<<Descriptor(n.key)>>, "none", FALSE)

\* the body of the inner loop for one notification
ParseNotification(n) ==
    IF n.kind = "nokey" THEN Parsed(<<>>, "KeyError", FALSE)
    ELSE LET filename == Basename(n.key)
         IN IF filename = <<>> \/ StartsWith(filename, <<".">>)
            THEN Parsed(<<>>, "none", TRUE)
            ELSE IF Strip(SplitextRoot(filename)) = <<>>
            THEN Parsed(<<>>, "none", TRUE)
            ELSE Parsed(<<Descriptor(n.key)>>, "none", FALSE)

\* the inner loop: descriptors are appended until a notification raises
RECURSIVE ParseRecords(_)
ParseRecords(recs) ==
    IF recs = <<>> THEN Parsed(<<>>, "none", FALSE)
    ELSE LET h == ParseNotification(Head(recs))
         IN IF h.exc # "none" THEN h
            ELSE LET t == ParseRecords(Tail(recs))
                 IN Parsed(h.files \o t.files, t.exc, h.skipped \/ t.skipped)

\* the try body for one SQS record
ParseEnvelope(rec) ==
    CASE rec.kind = "nobody" -> Parsed(<<>>, "KeyError", FALSE)
      [] rec.kind = "badjson" -> Parsed(<<>>, "JSONDecodeError", FALSE)
      [] rec.kind = "nonobject" -> Parsed(<<>>, "AttributeError", FALSE)
      [] OTHER -> ParseRecords(rec.recs)

\* except (json.JSONDecodeError, KeyError)
Caught(exc) == exc \in {"JSONDecodeError", "KeyError"}

RECURSIVE parse_sqs_records(_)
parse_sqs_records(event) ==
    IF event = <<>> THEN Parsed(<<>>, "none", FALSE)
    ELSE LET h == ParseEnvelope(Head(event))
         IN IF h.exc # "none" /\ ~Caught(h.exc)
            THEN Parsed(<<>>, h.exc, FALSE)
            ELSE LET t == parse_sqs_records(Tail(event))
                 IN IF t.exc = "none"
                    THEN Parsed(h.files \o t.files, "none", h.skipped \/ t.skipped)
                    ELSE Parsed(<<>>, t.exc, FALSE)

\* ---------------------------------------------------------------------
\* Report rows and the order-id index (handler, step 4)
\* ---------------------------------------------------------------------
\* the value a row holds in the order-id column: a string, a number, or
\* nothing
StrV(s) == [t |-> "str", s |-> s, n |-> 0]
IntV(n) == [t |-> "int", s |-> <<>>, n |-> n]
MissingV == [t |-> "missing", s |-> <<>>, n |-> 0]

RowValues == {StrV(<<"A", " ">>), StrV(<<"a">>), IntV(0), MissingV}
Reports == SeqsUpTo(RowValues, MaxRows)

DigitTok == <<"0", "1", "2", "3", "4", "5", "6", "7", "8", "9">>

RECURSIVE IntToStr(_)
IntToStr(n) ==
    IF n < 10 THEN <<DigitTok[n + 1]>>
    ELSE IntToStr(n \div 10) \o <<DigitTok[(n % 10) + 1]>>

\* str(row.get(ORDER_ID_COLUMN, ""))
PyStr(v) ==
    CASE v.t = "str" -> v.s
      [] v.t = "int" -> IntToStr(v.n)
      [] OTHER -> <<>>

\* if row.get(ORDER_ID_COLUMN)
Truthy(v) ==
    CASE v.t = "str" -> v.s # <<>>
      [] v.t = "int" -> v.n # 0
      [] OTHER -> FALSE

BuildOrderIds(rows) ==
    {Strip(PyStr(rows[j])) : j \in {m \in 1..Len(rows) : Truthy(rows[m])}}

\* ---------------------------------------------------------------------
\* Responses of the external services
\* ---------------------------------------------------------------------
LoginResponses == {"token", "no_token", "non200", "exception"}
SubmitResponses == {"task_id", "no_task_id", "non200", "exception"}
PollResponses == {"Done", "Request too Large", "Running", "non200", "exception"}

\* report_data: None, or the list of rows
NoneData == [none |-> TRUE, rows |-> <<>>]
DataOf(rows) == [none |-> FALSE, rows |-> rows]

\* the fetch response: a transport error, a non-200 status, a 200 body
\* without a "Data" field, or a 200 body with its rows
FetchResponses ==
    {[kind |-> k, rows |-> <<>>] : k \in {"exception", "non200", "no_data"}}
    \cup {[kind |-> "data", rows |-> r] : r \in Reports}

\* get_token: the header, or None
get_token(resp) == IF resp = "token" THEN "bearer" ELSE "None"

\* handler that goes on to the report without a credential
AuthFailedNever(auth_header) == FALSE

\* handler: if not auth_header
AuthFailed(auth_header) == auth_header = "None"

\* handler: if not files
NoFiles(files) == files = <<>>

\* pull_report, submit phase: TRUE when a task id was obtained
SubmitOk(resp) == resp = "task_id"


\* poll loop that leaves on the too-large sentinel as if it were Done
PollStepLenient(resp) ==
    CASE resp \in {"Done", "Request too Large"} -> "break"
      [] resp \in {"non200", "exception"} -> "fail"
      [] OTHER -> "sleep"

\* poll loop that polls again after a non-200 status response
PollStepRetry(resp) ==
    CASE resp = "Done" -> "break"
      [] resp = "Request too Large" -> "fail"
      [] resp = "exception" -> "fail"
      [] OTHER -> "sleep"

\* poll loop without an attempt budget
BudgetUnbounded(attempt) == TRUE

\* for attempt in range(30): is there another iteration after `attempt` of them
BudgetLeft(attempt) == attempt < PollAttempts

\* pull_report, one iteration of the poll loop
PollStep(resp) ==
    CASE resp = "Done" -> "break"
      [] resp = "Request too Large" -> "fail"
      [] resp \in {"non200", "exception"} -> "fail"
      [] OTHER -> "sleep"

\* pull_report, fetch phase: resp.json().get("Data", []) on 200, else None
FetchResult(resp) ==
    CASE resp.kind = "data" -> DataOf(resp.rows)
      [] resp.kind = "no_data" -> DataOf(<<>>)
      [] OTHER -> NoneData

\* handler: if report_data is None
ReportFailed(report_data) == report_data.none

\* handler, step 5: the prefix a descriptor is moved to
MatchDest(order_ref, order_ids) ==
    IF order_ref \in order_ids THEN PROCESSED_PREFIX ELSE ERRORS_PREFIX


\* for f in files: is there a descriptor at position i
HasNext(i, fs) == i <= Len(fs)

\* ---------------------------------------------------------------------
\* Object store (s3.copy_object, s3.delete_object)
\* ---------------------------------------------------------------------
\* what copy_object answers when the service itself is healthy
S3CopyOutcome(st, src, dst) ==
    IF src \notin st THEN "NoSuchKey"
    ELSE IF src = dst THEN "InvalidRequest"
    ELSE "ok"

\* copy_object that writes nothing
S3CopyNowhere(st, src, dst) == st

S3Copy(st, src, dst) == st \cup {dst}


\* delete_object that leaves the source in place
S3DeleteNoop(st, key) == st

S3Delete(st, key) == st \ {key}


\* move_file that logs the exception and returns
move_file_swallows(outcome) == FALSE

\* move_file: except Exception ... raise
move_file_raises(outcome) == outcome # "ok"


\* send_alert that lets the publish exception out
send_alert_reraises(published) == ~published

\* send_alert: except Exception ... (logged, not re-raised)
send_alert_raises(published) == FALSE

\* ---------------------------------------------------------------------
\* State
\* ---------------------------------------------------------------------
VARIABLES
    store,      \* the keys that exist in the bucket
    bucket0,    \* the bucket as it was before the first invocation
    delFailed,  \* filenames whose move failed at delete_object after its copy
    inv,        \* per invocation: control point, locals, and what it did
    ev          \* the event under decoding (decoder specification only)

vars == <<store, bucket0, delFailed, inv, ev>>

NoResult == [statusCode |-> 0, body |-> "", matched |-> 0, unmatched |-> 0]
Result(code, body, m, u) ==
    [statusCode |-> code, body |-> body, matched |-> m, unmatched |-> u]

IdleInv ==
    [pc |-> "idle", files |-> <<>>, skipped |-> FALSE, phase |-> "none",
     auth |-> "None",
     nLogin |-> 0, nSubmit |-> 0, task_id |-> "None", nFetch |-> 0,
     attempt |-> 0, lastStatus |-> "none", fetchResp |-> "none",
     report_data |-> NoneData, order_ids |-> {}, idx |-> 0,
     matched |-> <<>>, unmatched |-> <<>>, alerts |-> <<>>, moves |-> <<>>,
     result |-> NoResult, exc |-> "none", store0 |-> {}]

InitBuckets == {{kA, kSp} \cup InertKeys, {kA, kSub} \cup InertKeys}

Init ==
    /\ bucket0 \in InitBuckets
    /\ store = bucket0
    /\ delFailed = {}
    /\ inv = [p \in Procs |-> IdleInv]
    /\ ev = <<>>

Filenames(fs) == [j \in 1..Len(fs) |-> fs[j].filename]

Alert(subject, names, published) ==
    [subject |-> subject, count |-> Len(names), names |-> names,
     published |-> published]

Move(f, dest_prefix, phase, outcome) ==
    [key |-> f.key, filename |-> f.filename, dest |-> dest_prefix,
     phase |-> phase, outcome |-> outcome]

\* the prefix the descriptor at idx is being moved to
CurDest(s) ==
    IF s.phase = "match"
    THEN MatchDest(s.files[s.idx].order_ref, s.order_ids)
    ELSE ERRORS_PREFIX

Raise(s, exc) == [s EXCEPT !.pc = "raised", !.exc = exc]

\* handler after move_file returned for the descriptor at idx
AfterMove(s) ==
    LET f == s.files[s.idx]
        d == CurDest(s)
        s1 == [s EXCEPT
                 !.matched = IF s.phase = "match" /\ d = PROCESSED_PREFIX
                             THEN Append(@, f.filename) ELSE @,
                 !.unmatched = IF s.phase = "match" /\ d # PROCESSED_PREFIX
                               THEN Append(@, f.filename) ELSE @,
                 !.idx = @ + 1]
    IN IF HasNext(s1.idx, s1.files) THEN [s1 EXCEPT !.pc = "copy"]
       ELSE IF s.phase = "match" THEN [s1 EXCEPT !.pc = "alert_unmatched"]
       ELSE IF s.phase = "auth_fail"
       THEN [s1 EXCEPT !.pc = "done", !.result = Result(500, "Auth failed", 0, 0)]
       ELSE [s1 EXCEPT !.pc = "done", !.result = Result(500, "Report failed", 0, 0)]

\* handler once pull_report failed or get_token failed: the alert comes next
FailBatch(s, phase) == [s EXCEPT !.phase = phase, !.pc = "fail_alert"]

\* ---------------------------------------------------------------------
\* Actions: one handler invocation, one external call per step
\* ---------------------------------------------------------------------
\* handler from its entry to the end of step 1, given what parse_sqs_records
\* returned or raised
Start(p, r) ==
    /\ inv[p].pc = "idle"
    /\ LET s == [inv[p] EXCEPT !.store0 = store, !.skipped = r.skipped]
       IN inv' = [inv EXCEPT ![p] =
                    IF r.exc # "none" THEN Raise(s, r.exc)
                    ELSE IF NoFiles(r.files)
                    THEN [s EXCEPT !.pc = "done",
                                   !.result = Result(200, "No files", 0, 0)]
                    ELSE [s EXCEPT !.pc = "auth", !.files = r.files]]
    /\ UNCHANGED <<store, bucket0, delFailed, ev>>

\* handler is entered with an event
Enter(p, event) == Start(p, parse_sqs_records(event))

\* what parse_sqs_records yields over all events
Decoded == {parse_sqs_records(event) : event \in Events}

\* the runtime delivers some event
Invoke(p) == \E r \in Decoded : Start(p, r)

GetToken(p) ==
    /\ inv[p].pc = "auth"
    /\ \E resp \in LoginResponses :
         LET h == get_token(resp)
             s == [inv[p] EXCEPT !.auth = h, !.nLogin = @ + 1]
         IN inv' = [inv EXCEPT ![p] =
                      IF AuthFailed(h) THEN FailBatch(s, "auth_fail")
                      ELSE [s EXCEPT !.pc = "submit"]]
    /\ UNCHANGED <<store, bucket0, delFailed, ev>>

Submit(p) ==
    /\ inv[p].pc = "submit"
    /\ \E resp \in SubmitResponses :
         LET s == [inv[p] EXCEPT !.nSubmit = @ + 1]
         IN inv' = [inv EXCEPT ![p] =
                      IF SubmitOk(resp)
                      THEN [s EXCEPT !.pc = "poll", !.attempt = 0, !.task_id = "task"]
                      ELSE FailBatch(s, "report_fail")]
    /\ UNCHANGED <<store, bucket0, delFailed, ev>>

Poll(p) ==
    /\ inv[p].pc = "poll"
    /\ \E resp \in PollResponses :
         LET s == [inv[p] EXCEPT !.lastStatus = resp, !.attempt = @ + 1]
             \* nothing reads the loop counter once break or return has left
             \* the loop; when the budget is spent it stays at its bound
             out == [s EXCEPT !.attempt = 0]
             step == PollStep(resp)
         IN inv' = [inv EXCEPT ![p] =
                      CASE step = "break" -> [out EXCEPT !.pc = "fetch"]
                        [] step = "fail" -> FailBatch(out, "report_fail")
                        [] OTHER -> IF BudgetLeft(s.attempt) THEN s
                                    ELSE FailBatch(s, "report_fail")]
    /\ UNCHANGED <<store, bucket0, delFailed, ev>>

\* the fetch request, the None check of the handler and the index build
Fetch(p) ==
    /\ inv[p].pc = "fetch"
    /\ \E resp \in FetchResponses :
         LET rd == FetchResult(resp)
             s == [inv[p] EXCEPT !.fetchResp = resp.kind, !.report_data = rd,
                                 !.nFetch = @ + 1]
         IN inv' = [inv EXCEPT ![p] =
                      IF ReportFailed(rd) THEN FailBatch(s, "report_fail")
                      ELSE [s EXCEPT !.phase = "match", !.pc = "copy", !.idx = 1,
                                     !.order_ids = BuildOrderIds(rd.rows)]]
    /\ UNCHANGED <<store, bucket0, delFailed, ev>>

\* the aggregated alert of the failure branches, sent before the moves
FailAlert(p) ==
    /\ inv[p].pc = "fail_alert"
    /\ \E published \in BOOLEAN :
         LET subject == IF inv[p].phase = "auth_fail"
                        THEN "Authentication Failure" ELSE "Report Failure"
             s == [inv[p] EXCEPT !.alerts =
                     Append(@, Alert(subject, Filenames(inv[p].files), published))]
         IN inv' = [inv EXCEPT ![p] =
                      IF ~published /\ send_alert_raises(published)
                      THEN Raise(s, "AlertError")
                      ELSE [s EXCEPT !.pc = "copy", !.idx = 1]]
    /\ UNCHANGED <<store, bucket0, delFailed, ev>>

\* move_file, first half: copy_object
Copy(p) ==
    /\ inv[p].pc = "copy"
    /\ \E fault \in BOOLEAN :
         LET s == inv[p]
             f == s.files[s.idx]
             d == CurDest(s)
             dst == DestKey(d, f.filename)
             outcome == IF fault THEN "CopyError" ELSE S3CopyOutcome(store, f.key, dst)
             s1 == [s EXCEPT !.moves =
                      Append(@, Move(f, d, s.phase,
                                     IF outcome = "ok" THEN "copied" ELSE outcome))]
         IN IF outcome = "ok"
            THEN /\ store' = S3Copy(store, f.key, dst)
                 /\ inv' = [inv EXCEPT ![p] = [s1 EXCEPT !.pc = "delete"]]
            ELSE /\ store' = store
                 /\ inv' = [inv EXCEPT ![p] =
                              IF move_file_raises(outcome) THEN Raise(s1, "MoveError")
                              ELSE AfterMove(s1)]
    /\ UNCHANGED <<bucket0, delFailed, ev>>

\* move_file, second half: delete_object, then the handler's bookkeeping
Delete(p) ==
    /\ inv[p].pc = "delete"
    /\ \E fault \in BOOLEAN :
         LET s == inv[p]
             f == s.files[s.idx]
             outcome == IF fault THEN "DeleteError" ELSE "ok"
             s1 == [s EXCEPT !.moves[Len(s.moves)].outcome =
                      IF outcome = "ok" THEN "moved" ELSE outcome]
         IN IF outcome = "ok"
            THEN /\ store' = S3Delete(store, f.key)
                 /\ delFailed' = delFailed
                 /\ inv' = [inv EXCEPT ![p] = AfterMove(s1)]
            ELSE /\ store' = store
                 /\ delFailed' = delFailed \cup {f.filename}
                 /\ inv' = [inv EXCEPT ![p] =
                              IF move_file_raises(outcome) THEN Raise(s1, "MoveError")
                              ELSE AfterMove(s1)]
    /\ UNCHANGED <<bucket0, ev>>

\* handler, step 6: the unmatched alert, if any
AlertUnmatched(p) ==
    /\ inv[p].pc = "alert_unmatched"
    /\ IF inv[p].unmatched = <<>>
       THEN inv' = [inv EXCEPT ![p].pc = "alert_matched"]
       ELSE \E published \in BOOLEAN :
              LET s == [inv[p] EXCEPT !.alerts =
                          Append(@, Alert("Unmatched", inv[p].unmatched, published))]
              IN inv' = [inv EXCEPT ![p] =
                           IF ~published /\ send_alert_raises(published)
                           THEN Raise(s, "AlertError")
                           ELSE [s EXCEPT !.pc = "alert_matched"]]
    /\ UNCHANGED <<store, bucket0, delFailed, ev>>

\* handler, step 6 and 7: the matched alert, if any, and the summary
AlertMatched(p) ==
    /\ inv[p].pc = "alert_matched"
    /\ LET ret(s) == [s EXCEPT !.pc = "done",
                        !.result = Result(200, "counts", Len(s.matched),
                                          Len(s.unmatched))]
       IN IF inv[p].matched = <<>>
          THEN inv' = [inv EXCEPT ![p] = ret(@)]
          ELSE \E published \in BOOLEAN :
                 LET s == [inv[p] EXCEPT !.alerts =
                             Append(@, Alert("Matched", inv[p].matched, published))]
                 IN inv' = [inv EXCEPT ![p] =
                              IF ~published /\ send_alert_raises(published)
                              THEN Raise(s, "AlertError")
                              ELSE ret(s)]
    /\ UNCHANGED <<store, bucket0, delFailed, ev>>

\* the invocation is over (returned or raised); the runtime may invoke again
Finish(p) ==
    /\ inv[p].pc \in {"done", "raised"}
    /\ inv' = [inv EXCEPT ![p] = IdleInv]
    /\ UNCHANGED <<store, bucket0, delFailed, ev>>

\* invocations that do not overlap in time
Next ==
    \E p \in SeqProcs :
        \/ Invoke(p)
        \/ GetToken(p)
        \/ Submit(p)
        \/ Poll(p)
        \/ Fetch(p)
        \/ FailAlert(p)
        \/ Copy(p)
        \/ Delete(p)
        \/ AlertUnmatched(p)
        \/ AlertMatched(p)
        \/ Finish(p)

Spec == Init /\ [][Next]_vars

\* ---------------------------------------------------------------------
\* Report specification: one invocation up to the end of pull_report.
\* Every request of pull_report is answered or times out (timeout=30,
\* timeout=90) and the sleep between polls is finite, so each of its steps
\* is eventually taken
\* ---------------------------------------------------------------------
NextReport ==
    \/ Invoke("p1")
    \/ GetToken("p1")
    \/ Submit("p1")
    \/ Poll("p1")
    \/ Fetch("p1")

SpecReport ==
    /\ Init
    /\ [][NextReport]_vars
    /\ WF_vars(Submit("p1"))
    /\ WF_vars(Poll("p1"))
    /\ WF_vars(Fetch("p1"))

\* ---------------------------------------------------------------------
\* Concurrent specification: the runtime runs two invocations at once, each
\* on a batch of one notification for incoming/A.pdf; their steps
\* interleave freely
\* ---------------------------------------------------------------------
SharedKey == kA

InitConc ==
    /\ bucket0 = {kA, kSp} \cup InertKeys
    /\ store = bucket0
    /\ delFailed = {}
    /\ inv = [p \in Procs |-> IdleInv]
    /\ ev = <<>>

\* the batch of one notification, for the shared key
SharedBatches ==
    {r \in Decoded :
       /\ r.exc = "none"
       /\ ~r.skipped
       /\ Len(r.files) = 1
       /\ r.files[1].key = SharedKey}

\* the runtime delivers a batch that names the shared key
InvokeShared(p) == \E r \in SharedBatches : Start(p, r)

NextConc ==
    \E p \in Procs :
        \/ InvokeShared(p)
        \/ GetToken(p)
        \/ Submit(p)
        \/ Poll(p)
        \/ Fetch(p)
        \/ FailAlert(p)
        \/ Copy(p)
        \/ Delete(p)
        \/ AlertUnmatched(p)
        \/ AlertMatched(p)

SpecConc == InitConc /\ [][NextConc]_vars

\* ---------------------------------------------------------------------
\* Decoder specification: every event of the bounded universe is decoded
\* by one handler entry
\* ---------------------------------------------------------------------
InitDecode ==
    /\ bucket0 = UploadKeys \cup InertKeys
    /\ store = bucket0
    /\ delFailed = {}
    /\ inv = [p \in Procs |-> IdleInv]
    /\ ev \in Events

Decode == Enter("p1", ev)

NextDecode == Decode

SpecDecode == InitDecode /\ [][NextDecode]_vars

TypeOK ==
    /\ store \subseteq (NotifKeys \cup {DestKey(d, Basename(k)) :
                          d \in {PROCESSED_PREFIX, ERRORS_PREFIX}, k \in NotifKeys})
    /\ \A p \in Procs : inv[p].idx \in 0..(MaxNotifs + 1)

\* ---------------------------------------------------------------------
\* Vocabulary of the properties
\* ---------------------------------------------------------------------
Terminal(s) == s.pc \in {"done", "raised"}
Returned(s) == s.pc = "done"
Success(s) == s.pc = "done" /\ s.result.statusCode = 200 /\ s.result.body = "counts"
FailPhase(s) == s.phase \in {"auth_fail", "report_fail"}
Prefixes == {INCOMING_PREFIX, PROCESSED_PREFIX, ERRORS_PREFIX}
Under(k, d) == StartsWith(k, d)
MoveFailures == {"NoSuchKey", "InvalidRequest", "CopyError", "DeleteError"}

\* C1: when handler returns 200 with the matched/unmatched counts, every
\* descriptor of the batch is found under exactly one of processed/ and
\* errors/, and its key is no longer under incoming/.
C1_SuccessLeavesExactlyOne ==
    \A p \in Procs :
      Success(inv[p]) =>
        \A j \in 1..Len(inv[p].files) :
          LET f == inv[p].files[j]
          IN /\ ~(Under(f.key, INCOMING_PREFIX) /\ f.key \in store)
             /\ (DestKey(PROCESSED_PREFIX, f.filename) \in store)
                  # (DestKey(ERRORS_PREFIX, f.filename) \in store)

\* What a successful run does establish: every descriptor has left its source
\* key and was placed by this run under one prefix, where it is found.
PlacedUnder(s, f, d) ==
    /\ \E j \in 1..Len(s.moves) :
         /\ s.moves[j].key = f.key
         /\ s.moves[j].dest = d
         /\ s.moves[j].outcome = "moved"
    /\ DestKey(d, f.filename) \in store

RunPlacesEveryDescriptor ==
    \A p \in Procs :
      Success(inv[p]) =>
        \A j \in 1..Len(inv[p].files) :
          LET f == inv[p].files[j]
          IN /\ f.key \notin store
             /\ PlacedUnder(inv[p], f, PROCESSED_PREFIX)
                  # PlacedUnder(inv[p], f, ERRORS_PREFIX)

\* C2: redelivery of a batch whose objects an earlier invocation has already
\* moved away returns normally and leaves the bucket as it found it.
C2_RedeliveryIsNoOp ==
    \A p \in Procs :
      LET s == inv[p]
      IN (/\ Terminal(s)
          /\ s.files # <<>>
          /\ \A j \in 1..Len(s.files) :
               s.files[j].key \in bucket0 /\ s.files[j].key \notin s.store0)
         => (Returned(s) /\ store = s.store0)

\* C3: after an authentication or report failure the invocation ends with
\* every descriptor under errors/, one aggregated alert naming all files,
\* status 500, and no matched/unmatched alert.
C3_BatchFatalHandling ==
    \A p \in Procs :
      LET s == inv[p]
      IN (Terminal(s) /\ FailPhase(s)) =>
           /\ \A j \in 1..Len(s.files) :
                /\ DestKey(ERRORS_PREFIX, s.files[j].filename) \in store
                /\ s.files[j].key \notin store
           /\ Len(s.alerts) = 1
           /\ s.alerts[1].subject = (IF s.phase = "auth_fail"
                                     THEN "Authentication Failure"
                                     ELSE "Report Failure")
           /\ s.alerts[1].names = Filenames(s.files)
           /\ s.result.statusCode = 500

\* C4: descriptors are matched, and can reach processed/, only in an
\* invocation whose last status response was Done and whose fetch answered
\* 200; after too-large, timeout or any other report failure nothing is matched.
C4_NoPartialMatching ==
    \A p \in Procs :
      LET s == inv[p]
          polledDone == s.lastStatus = "Done"
      IN /\ \A j \in 1..Len(s.moves) :
              /\ s.moves[j].phase = "match"
                   => polledDone /\ s.fetchResp \in {"data", "no_data"}
              /\ s.moves[j].dest = PROCESSED_PREFIX
                   => polledDone /\ s.fetchResp = "data"
         /\ (s.phase = "match" \/ s.order_ids # {} \/ s.matched # <<>>
               \/ s.unmatched # <<>>)
              => polledDone /\ s.fetchResp \in {"data", "no_data"}
         /\ s.phase = "report_fail"
              => /\ s.order_ids = {}
                 /\ \A j \in 1..Len(s.moves) : s.moves[j].dest = ERRORS_PREFIX

\* the poll budget ran out and the whole batch went to errors/
C4_Witness ==
    \E p \in Procs :
      /\ inv[p].pc = "done"
      /\ inv[p].phase = "report_fail"
      /\ inv[p].lastStatus = "Running"
      /\ Len(inv[p].moves) = 2

\* C5: in the matching phase a descriptor goes to processed/ exactly when its
\* trimmed stem equals the trimmed string form of the order-id value of some
\* report row, and to errors/ otherwise.
RowStrings(rows) == {Strip(PyStr(rows[j])) : j \in 1..Len(rows)}

C5_MatchingRule ==
    \A p \in Procs :
      \A j \in 1..Len(inv[p].moves) :
        LET m == inv[p].moves[j]
        IN m.phase = "match" =>
             /\ m.dest \in {PROCESSED_PREFIX, ERRORS_PREFIX}
             /\ (m.dest = PROCESSED_PREFIX)
                  <=> (Strip(SplitextRoot(m.filename))
                         \in RowStrings(inv[p].report_data.rows))

\* C6: a malformed envelope or notification never makes handler raise; the
\* descriptors of the wholly well-formed envelopes are decoded, in order.
RECURSIVE IsSubseq(_, _)
IsSubseq(a, b) ==
    \/ a = <<>>
    \/ /\ b # <<>>
       /\ IF Head(a) = Head(b) THEN IsSubseq(Tail(a), Tail(b))
          ELSE IsSubseq(a, Tail(b))

WellFormed(rec) ==
    rec.kind = "object" /\ \A j \in 1..Len(rec.recs) : rec.recs[j].kind = "ok"

RECURSIVE CleanDecode(_)
CleanDecode(event) ==
    IF event = <<>> THEN <<>>
    ELSE (IF WellFormed(Head(event)) THEN ParseRecords(Head(event).recs).files
          ELSE <<>>) \o CleanDecode(Tail(event))

C6_MalformedSkipped ==
    inv["p1"].pc # "idle" =>
      /\ inv["p1"].pc # "raised"
      /\ IsSubseq(CleanDecode(ev), inv["p1"].files)

\* C7: in the blanket error handling the move to errors/ is attempted for
\* every descriptor, whatever happened to the earlier ones.
C7_ErrorMovesAllAttempted ==
    \A p \in Procs :
      (Terminal(inv[p]) /\ FailPhase(inv[p]))
        => Len(inv[p].moves) = Len(inv[p].files)

\* C8 (as stated): with non-overlapping invocations a filename exists under
\* at most one of incoming/, processed/, errors/ in every reachable state.
AllFilenames == {Basename(k) : k \in NotifKeys}
AllKeys ==
    NotifKeys \cup {DestKey(d, fn) : d \in {PROCESSED_PREFIX, ERRORS_PREFIX},
                                     fn \in AllFilenames}
\* where a key lies: its prefix and its filename
Place == [k \in AllKeys |->
            [fn |-> Basename(k),
             prefixes |-> {d \in Prefixes : Under(k, d)}]]
PrefixesOf(fn) ==
    UNION {Place[k].prefixes : k \in {x \in store : Place[x].fn = fn}}
Dup(fn) == Cardinality(PrefixesOf(fn)) > 1

C8_AtMostOnePrefix == \A fn \in AllFilenames : ~Dup(fn)

\* C8 (amended): with non-overlapping invocations, a filename that names a
\* single object of the bucket is under two prefixes only between the copy
\* and the delete of its move, or after the delete of one of its moves has
\* failed; that failure leaves handler as an exception.
SingleObject(fn) == Cardinality({k \in bucket0 : Place[k].fn = fn}) <= 1
MidMove(fn) ==
    \E p \in Procs :
      inv[p].pc = "delete" /\ inv[p].files[inv[p].idx].filename = fn

C8_DuplicateOnlyFromOpenMove ==
    /\ \A fn \in AllFilenames :
         (SingleObject(fn) /\ Dup(fn)) => (MidMove(fn) \/ fn \in delFailed)
    /\ \A p \in Procs : \A j \in 1..Len(inv[p].moves) :
         inv[p].moves[j].outcome = "DeleteError"
           => inv[p].pc = "raised" /\ inv[p].exc = "MoveError"

\* the duplicate that a failed delete leaves behind
C8_Witness ==
    \E p \in Procs : \E fn \in AllFilenames :
      /\ inv[p].pc = "raised"
      /\ inv[p].moves # <<>>
      /\ inv[p].moves[Len(inv[p].moves)].outcome = "DeleteError"
      /\ inv[p].moves[Len(inv[p].moves)].filename = fn
      /\ SingleObject(fn)
      /\ Dup(fn)

\* C9: a move failure in the matching phase, other than a missing source,
\* leaves handler as an exception: no result, no later move, no alert.
C9_MatchMoveFailurePropagates ==
    \A p \in Procs :
      \A j \in 1..Len(inv[p].moves) :
        LET s == inv[p]
            m == s.moves[j]
        IN (m.phase = "match"
              /\ m.outcome \in {"CopyError", "DeleteError", "InvalidRequest"})
           => /\ s.pc = "raised"
              /\ s.exc = "MoveError"
              /\ s.result = NoResult
              /\ j = Len(s.moves)
              /\ s.idx = j
              /\ s.alerts = <<>>

\* the first of two descriptors failed to move in the matching phase
C9_Witness ==
    \E p \in Procs :
      /\ inv[p].pc = "raised"
      /\ inv[p].phase = "match"
      /\ Len(inv[p].files) = 2
      /\ Len(inv[p].moves) = 1
      /\ inv[p].moves[1].outcome \in {"CopyError", "DeleteError"}

\* C10: a publish failure never fails the batch: handler does not raise on
\* it, and what it returns and moves is what the moves and the phase alone
\* determine.
ExpectedResult(s) ==
    CASE s.phase = "auth_fail" -> Result(500, "Auth failed", 0, 0)
      [] s.phase = "report_fail" -> Result(500, "Report failed", 0, 0)
      [] OTHER ->
           Result(200, "counts",
                  Cardinality({j \in 1..Len(s.moves) :
                                 s.moves[j].dest = PROCESSED_PREFIX}),
                  Cardinality({j \in 1..Len(s.moves) :
                                 s.moves[j].dest = ERRORS_PREFIX}))

C10_AlertFailureNeverFailsBatch ==
    \A p \in Procs :
      LET s == inv[p]
      IN (\E j \in 1..Len(s.alerts) : ~s.alerts[j].published) =>
           /\ s.exc # "AlertError"
           /\ s.pc = "raised" =>
                s.moves # <<>> /\ s.moves[Len(s.moves)].outcome \in MoveFailures
           /\ s.pc = "done" =>
                /\ s.result = ExpectedResult(s)
                /\ Len(s.moves) = Len(s.files)
                /\ \A j \in 1..Len(s.moves) :
                     s.moves[j].outcome = "moved" /\ s.moves[j].key = s.files[j].key

\* both alerts of a successful run failed to publish, and the run returned
C10_Witness ==
    \E p \in Procs :
      /\ Success(inv[p])
      /\ Len(inv[p].alerts) = 2
      /\ \A j \in 1..2 : ~inv[p].alerts[j].published

\* C11: an invocation sends at most one login request and at most one report
\* submission whatever the size of its batch, submits only with the credential
\* its own login returned, and matches only against the order ids built from
\* the report it fetched itself.
C11_OneAuthOneReportPerInvocation ==
    \A p \in Procs :
      LET s == inv[p]
      IN /\ s.nLogin <= 1
         /\ s.nSubmit <= 1
         /\ s.nSubmit = 1 => (s.nLogin = 1 /\ s.auth = "bearer")
         /\ s.auth = "bearer" => s.nLogin = 1
         /\ (s.order_ids # {} \/ s.phase = "match")
              => /\ s.nFetch = 1
                 /\ ~s.report_data.none
                 /\ s.order_ids = BuildOrderIds(s.report_data.rows)
         /\ s.pc \in {"idle", "auth"}
              => /\ s.auth = "None"
                 /\ s.order_ids = {}
                 /\ s.report_data = NoneData
                 /\ s.nLogin = 0 /\ s.nSubmit = 0 /\ s.nFetch = 0

\* a later invocation with two descriptors ran to its summary on one login
\* and one submission
C11_Witness ==
    \E p \in Procs :
      /\ Success(inv[p])
      /\ inv[p].store0 # bucket0
      /\ Len(inv[p].files) = 2
      /\ inv[p].nLogin = 1
      /\ inv[p].nSubmit = 1

\* C12: a notification whose base filename is empty, begins with ".", is
\* whitespace-only, or has an empty stem after trimming produces no
\* descriptor: its object is never copied or deleted, its name is in no
\* alert, and the batch decodes as it does without that notification.
Filtered(key) ==
    LET fn == Basename(key)
    IN \/ fn = <<>>
       \/ fn[1] = "."
       \/ \A j \in 1..Len(fn) : IsSpace(fn[j])
       \/ Strip(SplitextRoot(fn)) = <<>>

FilteredKeys == {k \in NotifKeys : Filtered(k)}

KeepNotif(n) == n.kind # "ok" \/ ~Filtered(n.key)

RemoveFiltered(event) ==
    [j \in 1..Len(event) |->
       [event[j] EXCEPT !.recs = SelectSeq(@, KeepNotif)]]

DecodeIgnoresFiltered ==
    \A event \in Events :
      LET with == parse_sqs_records(event)
          without == parse_sqs_records(RemoveFiltered(event))
      IN /\ with.files = without.files
         /\ with.exc = without.exc
         /\ \A j \in 1..Len(with.files) : ~Filtered(with.files[j].key)

C12_FilteredNotificationsUntouched ==
    /\ DecodeIgnoresFiltered
    /\ \A k \in FilteredKeys :
         /\ k \in bucket0 => k \in store
         /\ \A d \in {PROCESSED_PREFIX, ERRORS_PREFIX} :
              DestKey(d, Basename(k)) \notin store
    /\ \A p \in Procs :
         LET s == inv[p]
         IN /\ \A j \in 1..Len(s.files) : ~Filtered(s.files[j].key)
            /\ \A j \in 1..Len(s.moves) : ~Filtered(s.moves[j].key)
            /\ \A j \in 1..Len(s.alerts) : \A m \in 1..Len(s.alerts[j].names) :
                 \A k \in FilteredKeys : s.alerts[j].names[m] # Basename(k)

\* a batch with a filtered notification and a label: the label was matched
\* and announced, the filtered objects are where they were
C12_Witness ==
    \E p \in Procs :
      /\ Success(inv[p])
      /\ inv[p].skipped
      /\ inv[p].matched # <<>>
      /\ inv[p].alerts # <<>>
      /\ FilteredKeys \cap bucket0 # {}
      /\ FilteredKeys \cap bucket0 \subseteq store

\* C13: when the batch holds no notification that yields a descriptor (no
\* entries, or every entry malformed or filtered out), handler returns its
\* no-op success at once: no login, no report request, no move, no alert.
NoUsableNotification(event) ==
    \A j \in 1..Len(event) : \A m \in 1..Len(event[j].recs) :
      event[j].recs[m].kind = "nokey" \/ Filtered(event[j].recs[m].key)

NothingDone(s) ==
    /\ s.nLogin = 0 /\ s.nSubmit = 0 /\ s.attempt = 0 /\ s.nFetch = 0
    /\ s.lastStatus = "none"
    /\ s.moves = <<>>
    /\ s.alerts = <<>>
    /\ store = s.store0

C13_EmptyBatchShortCircuits ==
    (inv["p1"].pc # "idle" /\ NoUsableNotification(ev)) =>
      /\ inv["p1"].pc = "done"
      /\ inv["p1"].result = Result(200, "No files", 0, 0)
      /\ NothingDone(inv["p1"])

\* What the short circuit does establish: whenever parse_sqs_records returns
\* an empty list, handler returns at once with nothing done.
EmptyDecodeShortCircuits ==
    \A p \in Procs :
      (inv[p].pc \notin {"idle", "raised"} /\ inv[p].files = <<>>) =>
        /\ inv[p].pc = "done"
        /\ inv[p].result = Result(200, "No files", 0, 0)
        /\ NothingDone(inv[p])

\* C14: every move handler performs takes its object from under incoming/
\* and puts it under processed/ or errors/; an object already under
\* processed/ or errors/ is never moved or deleted, whatever key a
\* notification names.
Performed(m) == m.outcome \in {"copied", "moved", "DeleteError"}

C14_OnlyOutOfIncoming ==
    \A p \in Procs : \A j \in 1..Len(inv[p].moves) :
      LET m == inv[p].moves[j]
      IN Performed(m) =>
           /\ Under(m.key, INCOMING_PREFIX)
           /\ m.dest \in {PROCESSED_PREFIX, ERRORS_PREFIX}

\* C15: pull_report always terminates: after a successful submit at most
\* PollAttempts (30) status requests are sent, and when none of them answers
\* Done the call fails (timeout) and no data-fetch request is sent.
InPullReport(s) == s.pc \in {"submit", "poll", "fetch"}

PollBudgetKept ==
    \A p \in Procs :
      LET s == inv[p]
      IN /\ s.attempt <= PollAttempts
         /\ s.pc = "poll" => s.attempt < PollAttempts
         /\ s.attempt = PollAttempts
              => /\ ~InPullReport(s)
                 /\ s.phase = "report_fail"
                 /\ s.lastStatus # "Done"
         /\ s.lastStatus # "Done"
              => /\ s.nFetch = 0
                 /\ s.pc # "fetch"
                 /\ s.report_data = NoneData

C15_PullReportTerminates ==
    /\ []PollBudgetKept
    /\ (InPullReport(inv["p1"]) ~> ~InPullReport(inv["p1"]))

\* thirty status requests were answered, none with Done: timeout, no fetch
C15_Witness ==
    /\ inv["p1"].attempt = PollAttempts
    /\ inv["p1"].lastStatus = "Running"
    /\ inv["p1"].phase = "report_fail"
    /\ inv["p1"].nFetch = 0

\* C16: the data fetch is requested only after a status response Done, and
\* status is requested only after a submit that returned a task id; after a
\* too-large, non-200 or transport-error status response nothing more is
\* requested and the call fails; any other status leads to another poll
\* while the budget lasts.
PollFailures == {"Request too Large", "non200", "exception"}

C16_ReportProtocolOrder ==
    \A p \in Procs :
      LET s == inv[p]
      IN /\ (s.nFetch > 0 \/ s.pc = "fetch") => s.lastStatus = "Done"
         /\ s.nFetch <= 1
         /\ (s.pc \in {"poll", "fetch"} \/ s.lastStatus # "none" \/ s.nFetch > 0)
              => s.nSubmit = 1 /\ s.task_id = "task"
         /\ s.lastStatus \in PollFailures
              => /\ ~InPullReport(s)
                 /\ s.phase = "report_fail"
                 /\ s.nFetch = 0
                 /\ s.report_data = NoneData
         /\ s.lastStatus = "Running"
              => \/ s.pc = "poll" /\ s.attempt \in 1..(PollAttempts - 1)
                 \/ /\ s.attempt = PollAttempts
                    /\ ~InPullReport(s)
                    /\ s.phase = "report_fail"

\* a status request was answered with a non-200 status: the call failed
\* with no fetch
C16_Witness ==
    /\ inv["p1"].lastStatus = "non200"
    /\ inv["p1"].task_id = "task"
    /\ inv["p1"].phase = "report_fail"
    /\ inv["p1"].nFetch = 0

\* C17: within one invocation the moves of distinct descriptors address
\* pairwise disjoint keys: no source key is moved twice and no two
\* descriptors are written to the same destination key.
C17_MovesAddressDisjointKeys ==
    \A p \in Procs :
      \A i, j \in 1..Len(inv[p].moves) :
        LET a == inv[p].moves[i]
            b == inv[p].moves[j]
        IN i < j =>
             /\ a.key # b.key
             /\ DestKey(a.dest, a.filename) # DestKey(b.dest, b.filename)
             /\ a.key # DestKey(b.dest, b.filename)
             /\ b.key # DestKey(a.dest, a.filename)

\* C19: at the moment an "Authentication Failure" or "Report Failure" alert
\* is published, every file it names is already under errors/ and no longer
\* at its source key.
FailureSubjects == {"Authentication Failure", "Report Failure"}

\* the state in which send_alert of a failure branch has just returned
JustAlertedFailure(s) ==
    /\ FailPhase(s)
    /\ s.pc = "copy"
    /\ s.idx = 1
    /\ s.moves = <<>>
    /\ Len(s.alerts) = 1
    /\ s.alerts[1].subject \in FailureSubjects
    /\ s.alerts[1].published

C19_FailureAlertAfterMoves ==
    \A p \in Procs :
      JustAlertedFailure(inv[p]) =>
        \A j \in 1..Len(inv[p].files) :
          /\ inv[p].alerts[1].names[j] = inv[p].files[j].filename
          /\ DestKey(ERRORS_PREFIX, inv[p].files[j].filename) \in store
          /\ inv[p].files[j].key \notin store

\* C18 (as stated): of two concurrent invocations that both name the same
\* incoming/ key at most one completes its move of that object, and the
\* object does not end up under both processed/ and errors/.
MovedShared(s, d) ==
    \E j \in 1..Len(s.moves) :
      /\ s.moves[j].key = SharedKey
      /\ s.moves[j].dest = d
      /\ s.moves[j].outcome = "moved"

CompletedShared(s) ==
    MovedShared(s, PROCESSED_PREFIX) \/ MovedShared(s, ERRORS_PREFIX)

UnderBoth ==
    /\ DestKey(PROCESSED_PREFIX, Basename(SharedKey)) \in store
    /\ DestKey(ERRORS_PREFIX, Basename(SharedKey)) \in store

C18_AtMostOneMoveSucceeds ==
    /\ ~(CompletedShared(inv["p1"]) /\ CompletedShared(inv["p2"]))
    /\ (Terminal(inv["p1"]) /\ Terminal(inv["p2"])) => ~UnderBoth

\* C18 (amended): both concurrent invocations can complete their move of the
\* object.  What holds: a copy that comes after the other invocation's delete
\* fails and handler raises; a completed move has taken the object out of
\* incoming/ and its copy is at its destination; the object is under both
\* processed/ and errors/ only when the two invocations copied it to
\* different prefixes.
CopiedShared(s, d) ==
    \E j \in 1..Len(s.moves) :
      /\ s.moves[j].key = SharedKey
      /\ s.moves[j].dest = d
      /\ Performed(s.moves[j])

C18_ConcurrentMoveOutcome ==
    /\ \A p \in Procs : \A j \in 1..Len(inv[p].moves) :
         LET m == inv[p].moves[j]
         IN /\ m.outcome = "NoSuchKey"
                 => /\ inv[p].pc = "raised"
                    /\ inv[p].result = NoResult
                    /\ \E q \in Procs \ {p} : CompletedShared(inv[q])
            /\ m.outcome = "moved" => m.key \notin store
            /\ Performed(m) => DestKey(m.dest, m.filename) \in store
    /\ UnderBoth =>
         \E p \in Procs : \E q \in Procs \ {p} :
           /\ CopiedShared(inv[p], PROCESSED_PREFIX)
           /\ CopiedShared(inv[q], ERRORS_PREFIX)

\* both invocations returned after completing their move of the object, one
\* to processed/ and one to errors/, and the object is under both
C18_Witness ==
    /\ Returned(inv["p1"])
    /\ Returned(inv["p2"])
    /\ CompletedShared(inv["p1"])
    /\ CompletedShared(inv["p2"])
    /\ UnderBoth
    /\ SharedKey \notin store

====
